---- MODULE Spec2Model ----
(***************************************************************************)
(* Model of create-roblox-ts: the `init` command (src/commands/init.ts),   *)
(* its yargs builder and the top-level entry point.  One run of the        *)
(* program is one behaviour: the command line is parsed and validated,     *)
(* init() asks for the project directory, prepares it, probes the host for *)
(* tools, resolves the options, scans the path inventory for collisions    *)
(* and then runs the provisioning steps one after the other.               *)
(***************************************************************************)
EXTENDS Integers, Sequences, FiniteSets, TLC

VARIABLES
    command,        \* the yargs command that was invoked
    argv,           \* the parsed options (InitOptions); Undef = not given
    host,           \* outcome of lookpath for each tool on this host
    lookups,        \* the lookpath promise of each tool: idle, pending or settled
    templateFiles,  \* readdir(templateDir): top-level entries of the template
    fs,             \* kind of each entry of the target directory ("." = itself)
    pc,             \* position of the run
    dir,            \* `dir` after the project-directory prompt
    avail,          \* [npm, pnpm, yarn, git available] after the probe
    answers,        \* object returned by the option prompts
    cfg,            \* destructured template/git/eslint/prettier/vscode/packageManager
    question,       \* index of the next option prompt to consider
    scanIdx,        \* index of the next path the collision loop examines
    existingPaths,  \* collisions collected so far
    log,            \* what the run did to the outside, in order: prompts shown,
                    \* steps begun and ended, commands run, entries written
    err,            \* what ended the run abnormally
    exitCode,       \* << code >> once the process has ended, << >> before
    out             \* what the entry point reported to the user

vars == << command, argv, host, templateFiles, lookups, fs, pc, dir, avail, answers,
           cfg, question, scanIdx, existingPaths, log, err, exitCode, out >>

Undef == "undefined"

----------------------------------------------------------------------------
(* Bounds of the model                                                     *)

\* longest generated compiler-version string
MaxLen == 5
\* most option flags given explicitly on one command line
MaxExplicit == 1
\* most tools whose lookup does not answer "found"
MaxMissing == 2
\* most entries present in the target directory before the run
MaxOccupied == 2

----------------------------------------------------------------------------
(* Enumerations and tables                                                 *)

InitMode == {"none", "game", "place", "model", "plugin", "package"}

PackageManager == {"npm", "yarn", "pnpm"}

\* Object.entries(PackageManager) keeps declaration order
PackageManagerOrder == << "npm", "yarn", "pnpm" >>

packageManagerCommands ==
    [ npm  |-> [init |-> "npm init -y",  devInstall |-> "npm install --silent -D", build |-> "npm run build"],
      yarn |-> [init |-> "yarn init -y", devInstall |-> "yarn add --silent -D",    build |-> "yarn run build"],
      pnpm |-> [init |-> "pnpm init",    devInstall |-> "pnpm install --silent -D", build |-> "pnpm run build"] ]

\* command name -> InitMode handed to init()
Commands == {"$0", "game", "place", "model", "plugin", "package"}

CommandMode(c) ==
    CASE c = "$0"      -> "none"
      [] c = "game"    -> "game"
      [] c = "place"   -> "game"
      [] c = "model"   -> "model"
      [] c = "plugin"  -> "plugin"
      [] c = "package" -> "package"

\* choices of the "Select template" prompt
TemplateChoices == << "game", "model", "plugin", "package" >>

Tools == << "npm", "pnpm", "yarn", "git" >>

----------------------------------------------------------------------------
(* JavaScript operators used by the option defaults                        *)

\* an optional structured value: << >> = undefined, << v >> = v
None == << >>
Some(v) == << v >>

\* a ?? b
Coalesce(a, b) == IF a = Undef THEN b ELSE a

\* a && b  (undefined and false are falsy)
JsAnd(a, b) == IF a = Undef \/ a = "false" THEN a ELSE b

----------------------------------------------------------------------------
(* --compilerVersion: /^\d+\.\d+\.\d+$/ run over a string of characters    *)

Digits == {"0", "1", "2", "3", "4", "5", "6", "7", "8", "9"}

\* the pattern without its end anchor: anything may follow the third group
VersionStepUnanchored(q, c) ==
    CASE q \in {0, 1} /\ c \in Digits -> 1
      [] q = 1 /\ c = "."            -> 2
      [] q \in {2, 3} /\ c \in Digits -> 3
      [] q = 3 /\ c = "."            -> 4
      [] q \in {4, 5}                -> 5
      [] OTHER                       -> 6

\* automaton of the pattern: 0 -d-> 1 -.-> 2 -d-> 3 -.-> 4 -d-> 5, with a
\* digit loop on 1, 3 and 5; 6 is the dead state
VersionStep(q, c) ==
    CASE q \in {0, 1} /\ c \in Digits -> 1
      [] q = 1 /\ c = "."            -> 2
      [] q \in {2, 3} /\ c \in Digits -> 3
      [] q = 3 /\ c = "."            -> 4
      [] q \in {4, 5} /\ c \in Digits -> 5
      [] OTHER                       -> 6

RECURSIVE VersionRun(_, _, _)
VersionRun(s, i, q) ==
    IF i > Len(s) THEN q ELSE VersionRun(s, i + 1, VersionStep(q, s[i]))

VersionRegexTest(s) == VersionRun(s, 1, 0) = 5

\* the .check() callback of the builder: TRUE = the arguments pass
CompilerVersionCheck(a) ==
    ~ (a.compilerVersion # None /\ ~ VersionRegexTest(a.compilerVersion[1]))

----------------------------------------------------------------------------
(* Paths: a path is the sequence of its segments below the root            *)

\* process.cwd()
ProcessCwd == << "home" >>

RECURSIVE Normalize(_, _)
Normalize(segs, acc) ==
    IF segs = << >> THEN acc
    ELSE IF Head(segs) = ".."
         THEN Normalize(Tail(segs), IF acc = << >> THEN acc ELSE SubSeq(acc, 1, Len(acc) - 1))
         ELSE Normalize(Tail(segs), Append(acc, Head(segs)))

\* path.resolve(dir); dir is [abs, segs]
PathResolve(d) ==
    IF d.abs THEN Normalize(d.segs, << >>) ELSE Normalize(d.segs, ProcessCwd)

\* path.join(cwd, ...segments)
PathJoin(base, segs) == base \o segs

RECURSIVE CommonPrefix(_, _)
CommonPrefix(a, b) ==
    IF a = << >> \/ b = << >> \/ Head(a) # Head(b) THEN 0
    ELSE 1 + CommonPrefix(Tail(a), Tail(b))

\* path.relative(from, to)
PathRelative(from, to) ==
    LET k == CommonPrefix(from, to)
    IN  [i \in 1..(Len(from) - k) |-> ".."] \o SubSeq(to, k + 1, Len(to))

----------------------------------------------------------------------------
(* The target directory.  fs maps every entry name the run can touch to    *)
(* what is there; "." is the target directory itself.                      *)

\* the `paths` object, in declaration order (Object.values)
ConfigPaths ==
    << << "package.json" >>, << "package-lock.json" >>, << "tsconfig.json" >>,
       << ".gitignore" >>, << ".eslintrc" >>, << ".prettierrc" >>,
       << ".vscode", "settings.json" >>, << ".vscode", "extensions.json" >> >>

P_packageJson == ConfigPaths[1]
P_gitignore   == ConfigPaths[4]
P_eslintrc    == ConfigPaths[5]
P_prettierrc  == ConfigPaths[6]
P_settings    == ConfigPaths[7]
P_extensions  == ConfigPaths[8]

\* names a template tree can have at its top level
TemplateNames == { << "default.project.json" >>, << "src" >> }

\* entries only the external commands create
ToolPaths == { << ".git" >>, << "node_modules" >>, << "yarn.lock" >>,
               << "pnpm-lock.yaml" >>, << "out" >> }

Target == << "." >>

Range(f) == { f[i] : i \in DOMAIN f }

Entries == Range(ConfigPaths) \cup TemplateNames \cup ToolPaths

Kinds == { "absent", "file", "emptyDir", "fullDir", "special",
           "linkFile", "linkEmptyDir", "linkFullDir", "linkDangling" }

\* fs.pathExists: fs.access, which follows symbolic links
PathExists(k) == k \notin {"absent", "linkDangling"}

\* fs.stat follows symbolic links, so the Stats it returns never describe a link
StatIsFile(k)         == k \in {"file", "linkFile"}
StatIsDirectory(k)    == k \in {"emptyDir", "fullDir", "linkEmptyDir", "linkFullDir"}
StatIsSymbolicLink(k) == FALSE

\* fs.readdir: "ENOTDIR" when the path is not a directory, else the number of entries
ReaddirThrows(k) == ~ StatIsDirectory(k)
ReaddirCount(k)  == IF k \in {"fullDir", "linkFullDir"} THEN 1 ELSE 0

\* the condition of the collision loop for one path: "collision", "free" or
\* "throws" (the readdir of the third operand rejects)
Classify(k) ==
    IF ~ PathExists(k) THEN "free"
    ELSE IF StatIsFile(k) \/ StatIsSymbolicLink(k) THEN "collision"
    ELSE IF ReaddirThrows(k) THEN "throws"
    ELSE IF ReaddirCount(k) > 0 THEN "collision"
    ELSE "free"

\* pathValues: the config paths followed by the template entries
PathValues(tf) == ConfigPaths \o tf

----------------------------------------------------------------------------
(* Values of the options and of the host                                   *)

True  == "true"
False == "false"
Bool(b) == IF b THEN True ELSE False

\* a boolean yargs option: not given, --x or --no-x
Flag == {Undef, True, False}

\* what lookpath(tool) does: resolves with a path, resolves with undefined,
\* or rejects
LookupOutcomes == {"found", "notfound", "error"}

OptionNames == {"git", "eslint", "prettier", "vscode", "packageManager"}

NoOptions ==
    [ compilerVersion |-> None, dir |-> None, yes |-> Undef, git |-> Undef,
      eslint |-> Undef, prettier |-> Undef, vscode |-> Undef,
      packageManager |-> Undef, skipBuild |-> Undef ]

AllOptions ==
    [ compilerVersion : {None}, dir : {None}, yes : Flag, git : Flag,
      eslint : Flag, prettier : Flag, vscode : Flag,
      packageManager : PackageManager \cup {Undef}, skipBuild : {Undef} ]

Explicit(a) == { n \in OptionNames : a[n] # Undef }

Missing(h) == { t \in Range(Tools) : h[t] # "found" }

AllFound == [ t \in Range(Tools) |-> "found" ]

\* characters the generated version strings are made of
VersionChars == {"1", ".", "v"}

VersionStrings == UNION { [1..k -> VersionChars] : k \in 0..MaxLen }

SampleVersions ==
    { << "1", ".", "2", ".", "3" >>, << "1", ".", "2" >>,
      << "v", "1", ".", "2", ".", "3" >>,
      << "1", ".", "2", ".", "3", "-", "b", "e", "t", "a" >>,
      << "1", "0", ".", "2", "0", ".", "3", "0" >> }

\* directories a user names: "proj", "" (the working directory), "../sib", "/srv/x"
DirInputs ==
    { [abs |-> FALSE, segs |-> << "proj" >>], [abs |-> FALSE, segs |-> << >>],
      [abs |-> FALSE, segs |-> << "..", "sib" >>],
      [abs |-> TRUE,  segs |-> << "srv", "x" >>] }

Proj == [abs |-> FALSE, segs |-> << "proj" >>]

\* an existing, empty target directory
CleanFs == [ e \in Entries \cup {Target} |-> IF e = Target THEN "emptyDir" ELSE "absent" ]

\* the target directory does not exist yet, or is something else
BareFs(k) == [ e \in Entries \cup {Target} |-> IF e = Target THEN k ELSE "absent" ]

Occupied(f) == { e \in Entries : f[e] # "absent" }

----------------------------------------------------------------------------
(* Initial states: the command line, the host and the target directory     *)

Listing1 == << << "src" >> >>

Run(c, a, h, tf, f) ==
    [ command |-> c, argv |-> a, host |-> h, templateFiles |-> tf, fs |-> f ]

\* every command with every --compilerVersion text; the directory is asked for
CliRuns ==
    { Run(c, [NoOptions EXCEPT !.compilerVersion = Some(v), !.yes = True, !.skipBuild = True],
          AllFound, Listing1, CleanFs) :
        c \in Commands, v \in VersionStrings \cup SampleVersions }

FewExplicit == { o \in AllOptions : Cardinality(Explicit(o)) <= MaxExplicit }

\* hosts on which at most MaxMissing tools are not installed
FewMissing ==
    { h \in [Range(Tools) -> {"found", "notfound"}] : Cardinality(Missing(h)) <= MaxMissing }

\* --yes / --no-yes with option flags, against tool availability
OptionRuns ==
    { Run("model", [a EXCEPT !.dir = Some(Proj)], h, Listing1, CleanFs) :
        a \in { o \in FewExplicit : o.yes # Undef }, h \in FewMissing }

\* every combination of lookup outcomes, under --yes
ProbeRuns ==
    { Run("model", [NoOptions EXCEPT !.dir = Some(Proj), !.yes = True], h, Listing1, CleanFs) :
        h \in [Range(Tools) -> LookupOutcomes] }

\* a package.json that is neither a file nor a directory stops a run at the
\* first path of the collision check
Blocked == [BareFs("fullDir") EXCEPT ![P_packageJson] = "special"]

\* option flags without --yes: the prompts decide
PromptRuns ==
    { Run("model", [a EXCEPT !.dir = Some(Proj)], h, Listing1, Blocked) :
        a \in { o \in FewExplicit : o.yes = Undef }, h \in FewMissing }

\* the fully interactive default command
InteractiveRuns ==
    { Run("$0", [NoOptions EXCEPT !.dir = Some(Proj), !.skipBuild = sb], AllFound,
          Listing1, CleanFs) : sb \in Flag }

\* a target directory that does not exist yet
FreshRuns ==
    { Run("$0", [NoOptions EXCEPT !.dir = d, !.eslint = False, !.prettier = False],
          AllFound, Listing1, BareFs("absent")) : d \in {None, Some(Proj)} }

Listing2 == << << "default.project.json" >>, << "src" >> >>

\* the target directories holding at most n of the entries S, each of a kind of K
Populated(S, K, n) ==
    UNION { { [ e \in Entries \cup {Target} |->
                  IF e = Target THEN (IF O = {} THEN "emptyDir" ELSE "fullDir")
                  ELSE IF e \in O THEN k[e] ELSE "absent" ] : k \in [O -> K] } :
            O \in { X \in SUBSET S : Cardinality(X) <= n } }

\* inventory paths that are populated together: the first and a middle
\* configuration path, a nested one, and the template entries
Crowd ==
    { P_packageJson, P_gitignore, P_settings } \cup Range(Listing2)

\* target directories: missing, not a directory, or holding some entries
TargetRuns ==
    { Run("game", [NoOptions EXCEPT !.dir = Some(d), !.yes = True], AllFound, Listing2, f) :
        d \in DirInputs,
        f \in { BareFs("absent"), BareFs("file") }
              \cup Populated(Crowd, {"file", "emptyDir", "fullDir"}, MaxOccupied) }

\* one entry of any kind in the target directory, alone or next to a
\* non-empty src
KindRuns ==
    { Run("plugin", [NoOptions EXCEPT !.dir = Some(Proj), !.yes = True], AllFound,
          Listing1, [BareFs("fullDir") EXCEPT ![e] = k, ![<< "src" >>] = other]) :
        e \in Entries \ {<< "src" >>}, k \in Kinds \ {"absent"},
        other \in {"absent", "fullDir"} }

\* package --dir proj --yes on an empty directory
PackageArgs == [NoOptions EXCEPT !.dir = Some(Proj), !.yes = True]

\* game|place --dir proj --skipBuild --no-git
GameArgs == [NoOptions EXCEPT !.dir = Some(Proj), !.skipBuild = True, !.git = False]

\* the two end-to-end command lines, each on an empty directory of a host
\* that has every tool
ScenarioRuns ==
    { Run("package", PackageArgs, AllFound, Listing1, CleanFs) }
    \cup { Run(c, GameArgs, AllFound, Listing2, CleanFs) : c \in {"game", "place"} }

\* --yes with options switched off, in a directory that already holds one of
\* the configuration files
DisabledRuns ==
    { Run("model", [a EXCEPT !.dir = Some(Proj)], AllFound, Listing1, f) :
        a \in { o \in FewExplicit : o.yes = True },
        f \in Populated(Range(ConfigPaths), {"file"}, 1) }

\* a pinned or free compiler version against the linter and formatter flags
PinRuns ==
    { Run("plugin", [NoOptions EXCEPT !.dir = Some(Proj), !.yes = True, !.skipBuild = True,
                                      !.compilerVersion = v, !.eslint = e, !.prettier = p],
          AllFound, Listing1, CleanFs) :
        v \in {None, Some(<< "1", ".", "2", ".", "3" >>)}, e \in Flag, p \in Flag }

Runs == CliRuns \cup OptionRuns \cup ProbeRuns \cup PromptRuns \cup InteractiveRuns
        \cup FreshRuns \cup TargetRuns \cup KindRuns \cup ScenarioRuns \cup DisabledRuns
        \cup PinRuns


NoCfg ==
    [ template |-> Undef, git |-> Undef, eslint |-> Undef, prettier |-> Undef,
      vscode |-> Undef, packageManager |-> Undef ]

NoAvail == [ t \in Range(Tools) |-> Undef ]

NoLookups == [ t \in Range(Tools) |-> "idle" ]

NoAnswers == [ n \in {"template"} \cup OptionNames |-> Undef ]

Init ==
    /\ \E r \in Runs :
         /\ command = r.command
         /\ argv = r.argv
         /\ host = r.host
         /\ templateFiles = r.templateFiles
         /\ fs = r.fs
    /\ pc = "parse"
    /\ dir = None
    /\ avail = NoAvail
    /\ answers = NoAnswers
    /\ cfg = NoCfg
    /\ question = 1
    /\ scanIdx = 0
    /\ existingPaths = << >>
    /\ log = << >>
    /\ err = "none"
    /\ exitCode = None
    /\ out = << >>
    /\ lookups = NoLookups

----------------------------------------------------------------------------
(* The log of a run                                                        *)

Asked(name)  == [kind |-> "ask",   what |-> << name >>]
Start(label) == [kind |-> "start", what |-> << label >>]
End(label)   == [kind |-> "end",   what |-> << label >>]
Ran(line)    == [kind |-> "cmd",   what |-> line]
Wrote(path)  == [kind |-> "write", what |-> path]

RECURSIVE Only(_, _)
Only(k, l) ==
    IF l = << >> THEN << >>
    ELSE IF Head(l).kind = k THEN << Head(l).what >> \o Only(k, Tail(l))
    ELSE Only(k, Tail(l))

\* names of the prompts shown, labels of the steps begun and ended, command
\* lines run and entries written, each in order
asked   == [ i \in DOMAIN Only("ask", log)   |-> Only("ask", log)[i][1] ]
started == [ i \in DOMAIN Only("start", log) |-> Only("start", log)[i][1] ]
ended   == [ i \in DOMAIN Only("end", log)   |-> Only("end", log)[i][1] ]
cmds    == Only("cmd", log)
writes  == Only("write", log)

----------------------------------------------------------------------------
(* How a run ends                                                          *)

\* the errors the program constructs as InitError; everything else that can
\* be thrown (a spawn "error" event, the rewrapped git failure, a rejection
\* of fs-extra) is a plain Error
LoggableErrors ==
    { "InitError: Invalid --compilerVersion", "InitError: is not a directory",
      "InitError: Cannot initialize project", "InitError: Command exited with code" }

\* e instanceof LoggableError
IsLoggableError(e) == e \in LoggableErrors

\* e.log(): LogService.writeLine(this.toString()), one "create-roblox-ts error: ..." line
Line(e) == [kind |-> "line", what |-> e]

\* `throw e` inside the catch callback: the rejection is handled by nobody
\* and the runtime prints the error with its stack
Uncaught(e) == [kind |-> "uncaught", what |-> e]

\* process.exit(1): in an onCancel callback, silently; in the yargs fail
\* handler, after new InitError(str).log()
Exit(reason) ==
    /\ pc' = "exited"
    /\ err' = reason
    /\ exitCode' = Some(1)
    /\ out' = IF reason = "cancelled" THEN out ELSE Append(out, Line(reason))

\* an exception leaves init(): parseAsync().catch sets process.exitCode = 1,
\* logs a LoggableError and rethrows anything else
Throw(e) ==
    /\ pc' = "failed"
    /\ err' = e
    /\ exitCode' = Some(1)
    /\ out' = IF IsLoggableError(e) THEN Append(out, Line(e)) ELSE Append(out, Uncaught(e))

----------------------------------------------------------------------------
(* The builder's check, and the start of init()                            *)

\* yargs runs the global .check() before the command handler
Parse ==
    /\ pc = "parse"
    /\ IF CompilerVersionCheck(argv)
       THEN pc' = "dirPrompt" /\ UNCHANGED << err, exitCode, out >>
       ELSE Exit("InitError: Invalid --compilerVersion")
    /\ UNCHANGED << command, argv, host, templateFiles, lookups, fs, dir, avail, answers,
                    cfg, question, scanIdx, existingPaths, log >>

\* const { dir = argv.dir } = await prompts([{ name: "dir", ... }])
AskDir ==
    /\ pc = "dirPrompt"
    /\ IF argv.dir = None
       THEN /\ log' = Append(log, Asked("dir"))
            /\ \/ \E d \in DirInputs :
                    /\ dir' = Some(d)
                    /\ pc' = "ensureDir"
                    /\ UNCHANGED << err, exitCode, out >>
               \/ /\ Exit("cancelled")
                  /\ UNCHANGED dir
       ELSE /\ dir' = argv.dir
            /\ pc' = "ensureDir"
            /\ UNCHANGED << log, err, exitCode, out >>
    /\ UNCHANGED << command, argv, host, templateFiles, lookups, fs, avail, answers, cfg,
                    question, scanIdx, existingPaths >>

\* if (!(await fs.pathExists(cwd))) await fs.ensureDir(cwd)
EnsureDir ==
    /\ pc = "ensureDir"
    /\ IF PathExists(fs[Target])
       THEN UNCHANGED << fs, log >>
       ELSE /\ fs' = [fs EXCEPT ![Target] = "emptyDir"]
            /\ log' = Append(log, Wrote(Target))
    /\ pc' = "statDir"
    /\ UNCHANGED << command, argv, host, templateFiles, lookups, dir, avail, answers, cfg,
                    question, scanIdx, existingPaths, err, exitCode, out >>

\* a check that lets every target through
StatDirLenient ==
    /\ pc = "statDir"
    /\ pc' = "probe"
    /\ UNCHANGED << command, argv, host, templateFiles, lookups, fs, dir, avail, answers,
                    cfg, question, scanIdx, existingPaths, log, err, exitCode, out >>

\* if (!(await fs.stat(cwd)).isDirectory()) throw new InitError(...)
StatDir ==
    /\ pc = "statDir"
    /\ IF StatIsDirectory(fs[Target])
       THEN pc' = "probe" /\ UNCHANGED << err, exitCode, out >>
       ELSE Throw("InitError: is not a directory")
    /\ UNCHANGED << command, argv, host, templateFiles, lookups, fs, dir, avail, answers,
                    cfg, question, scanIdx, existingPaths, log >>

\* ["npm", "pnpm", "yarn", "git"].map(v => lookpath(v)): the four lookups are
\* issued one after the other without waiting for any of them
Lookpath ==
    /\ pc = "probe"
    /\ lookups' = [ t \in Range(Tools) |-> "pending" ]
    /\ pc' = "probing"
    /\ UNCHANGED << command, argv, host, templateFiles, fs, dir, avail, answers, cfg,
                    question, scanIdx, existingPaths, log, err, exitCode, out >>

\* how the promise of a lookup settles
Settlement(outcome) ==
    CASE outcome = "found"    -> "fulfilled: path"
      [] outcome = "notfound" -> "fulfilled: undefined"
      [] outcome = "error"    -> "rejected"

\* the lookup of one tool settles, whenever it does
Settle(t) ==
    /\ pc = "probing"
    /\ lookups[t] = "pending"
    /\ lookups' = [lookups EXCEPT ![t] = Settlement(host[t])]
    /\ UNCHANGED << command, argv, host, templateFiles, fs, pc, dir, avail, answers, cfg,
                    question, scanIdx, existingPaths, log, err, exitCode, out >>

\* v => (v.status === "fulfilled" ? v.value !== undefined : true)
Available(result) == IF result = "fulfilled: undefined" THEN False ELSE True

\* a join that goes on as soon as one lookup has settled
AllSettledRace == \E t \in Range(Tools) : lookups[t] # "pending"

\* Promise.allSettled resolves once no lookup is pending
AllSettled == \A t \in Range(Tools) : lookups[t] # "pending"

\* await Promise.allSettled(...) and the .map() over its results
Probe ==
    /\ pc = "probing"
    /\ AllSettled
    /\ avail' = [ t \in Range(Tools) |-> Available(lookups[t]) ]
    /\ pc' = "prompts"
    /\ UNCHANGED << command, argv, host, templateFiles, lookups, fs, dir, answers, cfg,
                    question, scanIdx, existingPaths, err, exitCode, out, log >>

----------------------------------------------------------------------------
(* Option resolution: the second prompts() call and its destructuring      *)

Questions == << "template", "git", "eslint", "prettier", "vscode", "packageManager" >>

initMode == CommandMode(command)

packageManagerCount == Cardinality({ m \in PackageManager : avail[m] = True })

\* type functions that do not look at --yes
QuestionTypeWithoutYes(n) ==
    CASE n = "template" -> initMode = "none"
      [] n = "git"      -> argv.git = Undef /\ avail["git"] = True
      [] n = "eslint"   -> argv.eslint = Undef
      [] n = "prettier" -> argv.prettier = Undef
      [] n = "vscode"   -> argv.vscode = Undef
      [] n = "packageManager" -> argv.packageManager = Undef /\ packageManagerCount > 1

\* the `type` function of question n: TRUE = the prompt is shown
QuestionType(n) ==
    CASE n = "template" -> initMode = "none"
      [] n = "git"      -> argv.git = Undef /\ argv.yes = Undef /\ avail["git"] = True
      [] n = "eslint"   -> argv.eslint = Undef /\ argv.yes = Undef
      [] n = "prettier" -> argv.prettier = Undef /\ argv.yes = Undef
      [] n = "vscode"   -> argv.vscode = Undef /\ argv.yes = Undef
      [] n = "packageManager" ->
             argv.packageManager = Undef /\ packageManagerCount > 1 /\ argv.yes = Undef

\* the values the prompt of question n can return
Choices(n) ==
    CASE n = "template" -> Range(TemplateChoices)
      [] n = "packageManager" -> { m \in Range(PackageManagerOrder) : avail[m] = True }
      [] OTHER -> {True, False}

\* prompts() skips the questions whose type is falsy
RECURSIVE NextQuestion(_)
NextQuestion(i) ==
    IF i > Len(Questions) THEN i
    ELSE IF QuestionType(Questions[i]) THEN i
    ELSE NextQuestion(i + 1)

\* one question of the list is shown: the user answers it or cancels
Ask(n) ==
    /\ pc = "prompts"
    /\ NextQuestion(question) <= Len(Questions)
    /\ n = Questions[NextQuestion(question)]
    /\ log' = Append(log, Asked(n))
    /\ \/ \E v \in Choices(n) :
            /\ answers' = [answers EXCEPT ![n] = v]
            /\ question' = NextQuestion(question) + 1
            /\ UNCHANGED << pc, err, exitCode, out >>
       \/ /\ Exit("cancelled")
          /\ UNCHANGED << answers, question >>
    /\ UNCHANGED << command, argv, host, templateFiles, lookups, fs, dir, avail, cfg,
                    scanIdx, existingPaths >>

\* defaults that let --yes speak before the option's own flag
DefaultYesFirst(n) ==
    CASE n = "template" -> initMode
      [] n = "git"      -> Coalesce(Coalesce(JsAnd(argv.yes, avail["git"]), argv.git), False)
      [] n = "eslint"   -> Coalesce(Coalesce(argv.yes, argv.eslint), False)
      [] n = "prettier" -> Coalesce(Coalesce(argv.yes, argv.prettier), False)
      [] n = "vscode"   -> Coalesce(Coalesce(argv.yes, argv.vscode), False)
      [] n = "packageManager" -> "npm"

\* defaults that recommend git without looking at the probe
DefaultIgnoringProbe(n) ==
    CASE n = "template" -> initMode
      [] n = "git"      -> Coalesce(Coalesce(argv.git, argv.yes), False)
      [] n = "eslint"   -> Coalesce(Coalesce(argv.eslint, argv.yes), False)
      [] n = "prettier" -> Coalesce(Coalesce(argv.prettier, argv.yes), False)
      [] n = "vscode"   -> Coalesce(Coalesce(argv.vscode, argv.yes), False)
      [] n = "packageManager" -> Coalesce(argv.packageManager, "npm")

\* the defaults of the destructuring pattern
Default(n) ==
    CASE n = "template" -> initMode
      [] n = "git"      -> Coalesce(Coalesce(argv.git, JsAnd(argv.yes, avail["git"])), False)
      [] n = "eslint"   -> Coalesce(Coalesce(argv.eslint, argv.yes), False)
      [] n = "prettier" -> Coalesce(Coalesce(argv.prettier, argv.yes), False)
      [] n = "vscode"   -> Coalesce(Coalesce(argv.vscode, argv.yes), False)
      [] n = "packageManager" -> Coalesce(argv.packageManager, "npm")

\* const { template = initMode, git = ..., ... } = await prompts([...]), then
\* the paths object and pathValues
Resolve ==
    /\ pc = "prompts"
    /\ NextQuestion(question) > Len(Questions)
    /\ cfg' = [ n \in DOMAIN NoCfg |-> IF answers[n] = Undef THEN Default(n) ELSE answers[n] ]
    /\ question' = NextQuestion(question)
    /\ scanIdx' = 1
    /\ pc' = "scan"
    /\ UNCHANGED << command, argv, host, templateFiles, lookups, fs, dir, avail, answers,
                    existingPaths, err, exitCode, out, log >>

----------------------------------------------------------------------------
(* The collision check                                                     *)

cwd == PathResolve(dir[1])

pathValues == PathValues(templateFiles)

\* a loop that gives up at the first collision it meets
ScanStopAtFirst ==
    /\ pc = "scan"
    /\ scanIdx <= Len(pathValues)
    /\ LET entry == pathValues[scanIdx]
           class == Classify(fs[entry])
       IN  IF class = "throws"
           THEN /\ Throw("Error: ENOTDIR")
                /\ UNCHANGED << scanIdx, existingPaths >>
           ELSE IF class = "collision"
           THEN /\ existingPaths' =
                      Append(existingPaths, PathRelative(ProcessCwd, PathJoin(cwd, entry)))
                /\ Throw("InitError: Cannot initialize project")
                /\ UNCHANGED scanIdx
           ELSE /\ scanIdx' = scanIdx + 1
                /\ UNCHANGED << existingPaths, pc, err, exitCode, out >>
    /\ UNCHANGED << command, argv, host, templateFiles, lookups, fs, dir, avail, answers, cfg,
                    question, log >>

\* the inventory paths some step of the resolved configuration writes
WouldWrite(e) ==
    CASE e = P_packageJson               -> TRUE
      [] e = << "package-lock.json" >>   -> cfg.packageManager = "npm"
      [] e = P_gitignore                 -> cfg.git = True
      [] e = P_eslintrc                  -> cfg.eslint = True
      [] e = P_prettierrc                -> cfg.prettier = True
      [] e \in {P_settings, P_extensions} -> cfg.vscode = True
      [] OTHER                           -> e \in Range(templateFiles)

\* a loop that passes over the paths of disabled options
ScanEnabledOnly ==
    /\ pc = "scan"
    /\ scanIdx <= Len(pathValues)
    /\ LET entry == pathValues[scanIdx]
           class == IF WouldWrite(entry) THEN Classify(fs[entry]) ELSE "free"
       IN  IF class = "throws"
           THEN /\ Throw("Error: ENOTDIR")
                /\ UNCHANGED << scanIdx, existingPaths >>
           ELSE /\ existingPaths' =
                      IF class = "collision"
                      THEN Append(existingPaths, PathRelative(ProcessCwd, PathJoin(cwd, entry)))
                      ELSE existingPaths
                /\ scanIdx' = scanIdx + 1
                /\ UNCHANGED << pc, err, exitCode, out >>
    /\ UNCHANGED << command, argv, host, templateFiles, lookups, fs, dir, avail, answers,
                    cfg, question, log >>

\* one iteration of `for (const filePath of pathValues)`
Scan ==
    /\ pc = "scan"
    /\ scanIdx <= Len(pathValues)
    /\ LET entry == pathValues[scanIdx]
           class == Classify(fs[entry])
       IN  IF class = "throws"
           THEN /\ Throw("Error: ENOTDIR")
                /\ UNCHANGED << scanIdx, existingPaths >>
           ELSE /\ existingPaths' =
                      IF class = "collision"
                      THEN Append(existingPaths, PathRelative(ProcessCwd, PathJoin(cwd, entry)))
                      ELSE existingPaths
                /\ scanIdx' = scanIdx + 1
                /\ UNCHANGED << pc, err, exitCode, out >>
    /\ UNCHANGED << command, argv, host, templateFiles, lookups, fs, dir, avail, answers,
                    cfg, question, log >>

----------------------------------------------------------------------------
(* The provisioning steps                                                  *)

\* the benchmark() calls of init(), in program order
StepOrder == << "pkg", "git", "install", "eslint", "prettier", "vscode", "copy", "build" >>

Label(step) ==
    CASE step = "pkg"      -> "Initializing package.json.."
      [] step = "git"      -> "Initializing Git.."
      [] step = "install"  -> "Installing dependencies.."
      [] step = "eslint"   -> "Configuring ESLint.."
      [] step = "prettier" -> "Configuring prettier.."
      [] step = "vscode"   -> "Configuring vscode.."
      [] step = "copy"     -> "Copying template files.."
      [] step = "build"    -> "Compiling.."

\* every step runs, whatever the flags are
EnabledAlways(step) == TRUE

\* guards that build whatever --skipBuild says
EnabledIgnoringSkipBuild(step) ==
    CASE step = "git"      -> cfg.git = True
      [] step = "eslint"   -> cfg.eslint = True
      [] step = "prettier" -> cfg.prettier = True
      [] step = "vscode"   -> cfg.vscode = True
      [] OTHER             -> TRUE

\* the `if` that guards the benchmark() call of a step
Enabled(step) ==
    CASE step = "git"      -> cfg.git = True
      [] step = "eslint"   -> cfg.eslint = True
      [] step = "prettier" -> cfg.prettier = True
      [] step = "vscode"   -> cfg.vscode = True
      [] step = "build"    -> argv.skipBuild # True
      [] OTHER             -> TRUE

\* where control goes from position i of StepOrder: the next step whose guard
\* holds, or the end of init()
RECURSIVE StepFrom(_)
StepFrom(i) ==
    IF i > Len(StepOrder) THEN "return"
    ELSE IF Enabled(StepOrder[i]) THEN StepOrder[i]
    ELSE StepFrom(i + 1)

Index(step) == CHOOSE i \in DOMAIN StepOrder : StepOrder[i] = step

After(step) == StepFrom(Index(step) + 1)

selectedPackageManager == packageManagerCommands[cfg.packageManager]

\* what a child process started by cmd() does: close with code 0, close with
\* another code, or emit "error"
CmdOutcomes == {"ok", "exit", "spawn"}

CmdError(outcome) ==
    IF outcome = "exit" THEN "InitError: Command exited with code" ELSE "Error: spawn"

\* fs.outputFile cannot replace a directory
Writable(k) == ~ StatIsDirectory(k)

\* if (existingPaths.length > 0) throw new InitError(...)
Decide ==
    /\ pc = "scan"
    /\ scanIdx > Len(pathValues)
    /\ IF Len(existingPaths) > 0
       THEN Throw("InitError: Cannot initialize project")
       ELSE pc' = StepFrom(1) /\ UNCHANGED << err, exitCode, out >>
    /\ UNCHANGED << command, argv, host, templateFiles, lookups, fs, dir, avail, answers,
                    cfg, question, scanIdx, existingPaths, log >>

\* positions inside the callback of a step
InnerPcs == {"pkg.read", "pkg.write", "git.write", "vscode.settings"}

\* benchmark() reports the end of a step when its callback has resolved
Ended(step, next) == IF next \in InnerPcs THEN << >> ELSE << End(Label(step)) >>

\* what a successful command leaves in the target directory
Made(e) ==
    IF e \in {<< ".git" >>, << "node_modules" >>, << "out" >>, << "src" >>}
    THEN "fullDir" ELSE "file"

\* a cmd() whose failure is recorded but does not stop the callback
StartCmdKeepGoing(step, line, made, next) ==
    /\ \E outcome \in CmdOutcomes :
         IF outcome = "ok"
         THEN /\ fs' = [ e \in DOMAIN fs |-> IF e \in Range(made) THEN Made(e) ELSE fs[e] ]
              /\ log' = log \o << Start(Label(step)), Ran(line) >>
                            \o [ i \in DOMAIN made |-> Wrote(made[i]) ]
                            \o Ended(step, next)
              /\ pc' = next
              /\ UNCHANGED << err, exitCode, out >>
         ELSE /\ err' = CmdError(outcome)
              /\ exitCode' = Some(1)
              /\ out' = Append(out, Line(CmdError(outcome)))
              /\ pc' = next
              /\ log' = log \o << Start(Label(step)), Ran(line) >> \o Ended(step, next)
              /\ UNCHANGED fs
    /\ UNCHANGED << command, argv, host, templateFiles, lookups, dir, avail, answers, cfg,
                    question, scanIdx, existingPaths >>

\* a step that starts by running a command: benchmark(label, ...) up to the
\* settlement of that cmd()
StartCmd(step, line, made, next) ==
    /\ \E outcome \in CmdOutcomes :
         IF outcome = "ok"
         THEN /\ fs' = [ e \in DOMAIN fs |-> IF e \in Range(made) THEN Made(e) ELSE fs[e] ]
              /\ log' = log \o << Start(Label(step)), Ran(line) >>
                            \o [ i \in DOMAIN made |-> Wrote(made[i]) ]
                            \o Ended(step, next)
              /\ pc' = next
              /\ UNCHANGED << err, exitCode, out >>
         ELSE /\ Throw(IF step = "git" /\ outcome = "spawn"
                       THEN "Error: spawn, Do you not have Git installed?"
                       ELSE CmdError(outcome))
              /\ log' = log \o << Start(Label(step)), Ran(line) >>
              /\ UNCHANGED fs
    /\ UNCHANGED << command, argv, host, templateFiles, lookups, dir, avail, answers, cfg,
                    question, scanIdx, existingPaths >>

\* await fs.outputFile(path, ...); `first` when it is the first statement of
\* the callback of its step
WriteFile(first, step, path, next) ==
    /\ \E ok \in BOOLEAN :
         IF ok /\ Writable(fs[path])
         THEN /\ fs' = [fs EXCEPT ![path] = "file"]
              /\ log' = log \o (IF first THEN << Start(Label(step)) >> ELSE << >>)
                            \o << Wrote(path) >> \o Ended(step, next)
              /\ pc' = next
              /\ UNCHANGED << err, exitCode, out >>
         ELSE /\ Throw("Error: outputFile")
              /\ log' = log \o (IF first THEN << Start(Label(step)) >> ELSE << >>)
              /\ UNCHANGED fs
    /\ UNCHANGED << command, argv, host, templateFiles, lookups, dir, avail, answers, cfg,
                    question, scanIdx, existingPaths >>

\* benchmark("Initializing package.json..") up to the end of cmd(init)
InitPackageJson ==
    /\ pc = "pkg"
    /\ StartCmd("pkg", << selectedPackageManager.init >>, << P_packageJson >>, "pkg.read")

\* const pkgJson = await fs.readJson(paths.packageJson), and the edits of pkgJson
ReadPackageJson ==
    /\ pc = "pkg.read"
    /\ \/ pc' = "pkg.write" /\ UNCHANGED << err, exitCode, out >>
       \/ Throw("Error: readJson")
    /\ UNCHANGED << command, argv, host, templateFiles, lookups, fs, dir, avail, answers,
                    cfg, question, scanIdx, existingPaths, log >>

\* await fs.outputFile(paths.packageJson, JSON.stringify(pkgJson, null, 2))
WritePackageJson ==
    /\ pc = "pkg.write"
    /\ WriteFile(FALSE, "pkg", P_packageJson, After("pkg"))

\* benchmark("Initializing Git..") up to the end of cmd("git init"); only an
\* `Error` is rewrapped with the guidance, an InitError is rethrown as it is
InitGit ==
    /\ pc = "git"
    /\ StartCmd("git", << "git init" >>, << << ".git" >> >>, "git.write")

\* await fs.outputFile(paths.gitignore, ...)
WriteGitignore ==
    /\ pc = "git.write"
    /\ WriteFile(FALSE, "git", P_gitignore, After("git"))

compilerVersion == argv.compilerVersion

\* compilerVersion ? ... : "" -- undefined and "" are falsy
Pinned == compilerVersion # None /\ compilerVersion # Some(<< >>)

\* a list that adds the integration packages whenever the linter is on
DevDependenciesLoose ==
    << IF Pinned THEN << "roblox-ts", "@", compilerVersion[1] >> ELSE << "roblox-ts" >>,
       IF Pinned THEN << "@rbxts/compiler-types", "@compiler-", compilerVersion[1] >>
                 ELSE << "@rbxts/compiler-types" >>,
       << "typescript" >> >>
    \o (IF cfg.prettier = True THEN << << "prettier" >> >> ELSE << >>)
    \o (IF cfg.eslint = True
        THEN << << "eslint" >>, << "@typescript-eslint/eslint-plugin" >>,
                << "@typescript-eslint/parser" >>, << "eslint-plugin-roblox-ts" >>,
                << "eslint-config-prettier" >>, << "eslint-plugin-prettier" >> >>
        ELSE << >>)

\* the devDependencies array; a pinned entry is << name, separator, version >>
DevDependencies ==
    << IF Pinned THEN << "roblox-ts", "@", compilerVersion[1] >> ELSE << "roblox-ts" >>,
       IF Pinned THEN << "@rbxts/compiler-types", "@compiler-", compilerVersion[1] >>
                 ELSE << "@rbxts/compiler-types" >>,
       << "typescript" >> >>
    \o (IF cfg.prettier = True THEN << << "prettier" >> >> ELSE << >>)
    \o (IF cfg.eslint = True
        THEN << << "eslint" >>, << "@typescript-eslint/eslint-plugin" >>,
                << "@typescript-eslint/parser" >>, << "eslint-plugin-roblox-ts" >> >>
             \o (IF cfg.prettier = True
                 THEN << << "eslint-config-prettier" >>, << "eslint-plugin-prettier" >> >>
                 ELSE << >>)
        ELSE << >>)

\* the lock file the selected package manager leaves behind
LockFile(m) ==
    CASE m = "npm"  -> << "package-lock.json" >>
      [] m = "yarn" -> << "yarn.lock" >>
      [] m = "pnpm" -> << "pnpm-lock.yaml" >>

\* benchmark("Installing dependencies..")
InstallDependencies ==
    /\ pc = "install"
    /\ StartCmd("install", << selectedPackageManager.devInstall >> \o DevDependencies, << << "node_modules" >>, LockFile(cfg.packageManager), P_packageJson >>, After("install"))

\* benchmark("Configuring ESLint..")
ConfigureEslint ==
    /\ pc = "eslint"
    /\ WriteFile(TRUE, "eslint", P_eslintrc, After("eslint"))

\* benchmark("Configuring prettier..")
ConfigurePrettier ==
    /\ pc = "prettier"
    /\ WriteFile(TRUE, "prettier", P_prettierrc, After("prettier"))

\* benchmark("Configuring vscode.."): extensions.json first
ConfigureVscode ==
    /\ pc = "vscode"
    /\ WriteFile(TRUE, "vscode", P_extensions, "vscode.settings")

\* await fs.outputFile(paths.settings, ...)
WriteSettings ==
    /\ pc = "vscode.settings"
    /\ WriteFile(FALSE, "vscode", P_settings, After("vscode"))

\* benchmark("Copying template files.."): fs.copy(templateDir, cwd)
CopyTemplate ==
    /\ pc = "copy"
    /\ \/ /\ fs' = [ e \in DOMAIN fs |-> IF e \in Range(templateFiles) THEN Made(e) ELSE fs[e] ]
          /\ log' = log \o << Start(Label("copy")) >>
                        \o [ i \in DOMAIN templateFiles |-> Wrote(templateFiles[i]) ]
                        \o << End(Label("copy")) >>
          /\ pc' = After("copy")
          /\ UNCHANGED << err, exitCode, out >>
       \/ /\ Throw("Error: copy")
          /\ log' = Append(log, Start(Label("copy")))
          /\ UNCHANGED fs
    /\ UNCHANGED << command, argv, host, templateFiles, lookups, dir, avail, answers, cfg,
                    question, scanIdx, existingPaths >>

\* benchmark("Compiling..", () => cmd(selectedPackageManager.build, cwd))
Build ==
    /\ pc = "build"
    /\ StartCmd("build", << selectedPackageManager.build >>, << << "out" >> >>, After("build"))

\* init() returns: the promise of parseAsync() resolves
Return ==
    /\ pc = "return"
    /\ pc' = "done"
    /\ exitCode' = Some(0)
    /\ UNCHANGED << command, argv, host, templateFiles, lookups, fs, dir, avail, answers,
                    cfg, question, scanIdx, existingPaths, err, log, out >>

Next ==
    \/ Parse
    \/ AskDir
    \/ EnsureDir
    \/ StatDir
    \/ Lookpath
    \/ \E t \in Range(Tools) : Settle(t)
    \/ Probe
    \/ \E n \in Range(Questions) : Ask(n)
    \/ Resolve
    \/ Scan
    \/ Decide
    \/ InitPackageJson
    \/ ReadPackageJson
    \/ WritePackageJson
    \/ InitGit
    \/ WriteGitignore
    \/ InstallDependencies
    \/ ConfigureEslint
    \/ ConfigurePrettier
    \/ ConfigureVscode
    \/ WriteSettings
    \/ CopyTemplate
    \/ Build
    \/ Return

Spec == Init /\ [][Next]_vars

----------------------------------------------------------------------------
(* Vocabulary of the properties                                            *)

CollisionError == "InitError: Cannot initialize project"
VersionError == "InitError: Invalid --compilerVersion"

WasAsked(n) == \E i \in DOMAIN asked : asked[i] = n
WasStarted(label) == \E i \in DOMAIN started : started[i] = label

\* the destructuring of the option prompts has happened
IsResolved == cfg # NoCfg

\* the probe has settled
IsProbed == avail # NoAvail

\* an inventory path that is there as a file or as a directory with entries
Occupies(e) == fs[e] \in {"file", "linkFile", "fullDir", "linkFullDir"}

\* the package managers the probe marked available
AvailableManagers == { m \in PackageManager : avail[m] = True }

----------------------------------------------------------------------------
(* C1: when the collision check runs and some inventory path is there as a *)
(* file or a non-empty directory, the run can only go on examining paths   *)
(* or fail with the collision error; it runs no command, writes nothing    *)
(* and begins no step.                                                     *)

C1_CollisionStopsRun ==
    [][ (pc = "scan" /\ \E i \in DOMAIN pathValues : Occupies(pathValues[i]))
          => /\ pc' = "scan" \/ (pc' = "failed" /\ err' = CollisionError)
             /\ log' = log /\ fs' = fs ]_vars

----------------------------------------------------------------------------
(* C2: an option given on the command line is never asked for and is the   *)
(* resolved value; a template pinned by the command is never asked for and *)
(* is the resolved template.                                               *)

C2_ExplicitWins ==
    /\ \A n \in OptionNames :
         argv[n] # Undef =>
            /\ ~ WasAsked(n)
            /\ IsResolved => cfg[n] = argv[n]
    /\ CommandMode(command) # "none" =>
            /\ ~ WasAsked("template")
            /\ IsResolved => cfg.template = CommandMode(command)

\* --yes --no-eslint went through: eslint stays off although --yes recommends it
C2_Witness ==
    /\ pc = "done"
    /\ argv.yes = True /\ argv.eslint = False /\ cfg.eslint = False
    /\ command = "model" /\ cfg.template = "model"

----------------------------------------------------------------------------
(* C3, as stated: when the probe marks git unavailable, the git prompt is  *)
(* never asked, the resolved git option is false and the git step never    *)
(* begins, whatever the options are.                                       *)

C3_Original ==
    (IsProbed /\ avail["git"] = False) =>
        /\ ~ WasAsked("git")
        /\ IsResolved => cfg.git = False
        /\ ~ WasStarted("Initializing Git..")

(* C3, amended: the same, except that an explicit --git is obeyed: the     *)
(* prompt is still never asked, and the resolved option is false and the   *)
(* git step never begins unless the command line says --git.               *)

C3_UnavailableGit ==
    (IsProbed /\ avail["git"] = False) =>
        /\ ~ WasAsked("git")
        /\ argv.git # True =>
              /\ IsResolved => cfg.git = False
              /\ ~ WasStarted("Initializing Git..")
        /\ (argv.git = True /\ IsResolved) => cfg.git = True

\* --yes without git on the host: the run completes with git off
C3_Witness ==
    /\ pc = "done"
    /\ avail["git"] = False /\ argv.yes = True /\ argv.git = Undef
    /\ cfg.git = False

----------------------------------------------------------------------------
(* C4: without --packageManager and with exactly one of npm, pnpm, yarn    *)
(* available, the package-manager prompt is not asked and the resolved     *)
(* package manager is the available one; the prompt is asked only when     *)
(* more than one is available.                                             *)

C4_Original ==
    /\ (IsProbed /\ argv.packageManager = Undef /\ Cardinality(AvailableManagers) = 1) =>
          /\ ~ WasAsked("packageManager")
          /\ IsResolved => cfg.packageManager \in AvailableManagers
    /\ WasAsked("packageManager") => Cardinality(AvailableManagers) > 1

----------------------------------------------------------------------------
(* C5: a run the user cancelled at a prompt has exit code 1 and has        *)
(* written nothing, created no directory and run no command.               *)

C5_Original ==
    err = "cancelled" =>
        /\ exitCode = Some(1)
        /\ writes = << >>
        /\ cmds = << >>

----------------------------------------------------------------------------
(* The canonical step list of a resolved run, written out flag by flag     *)

IsPrefix(a, b) == Len(a) <= Len(b) /\ SubSeq(b, 1, Len(a)) = a

ExpectedSteps ==
    << "Initializing package.json.." >>
    \o (IF cfg.git = True THEN << "Initializing Git.." >> ELSE << >>)
    \o << "Installing dependencies.." >>
    \o (IF cfg.eslint = True THEN << "Configuring ESLint.." >> ELSE << >>)
    \o (IF cfg.prettier = True THEN << "Configuring prettier.." >> ELSE << >>)
    \o (IF cfg.vscode = True THEN << "Configuring vscode.." >> ELSE << >>)
    \o << "Copying template files.." >>
    \o (IF argv.skipBuild = True THEN << >> ELSE << "Compiling.." >>)

\* number of events of a kind among the first n of the log
RECURSIVE CountKind(_, _)
CountKind(k, n) ==
    IF n = 0 THEN 0
    ELSE CountKind(k, n - 1) + (IF log[n].kind = k THEN 1 ELSE 0)

----------------------------------------------------------------------------
(* C6: the steps run one at a time and fail fast.  The steps begun are     *)
(* always the first ones of the run's step list; a step begins only when   *)
(* every step begun before it has ended; an error ends the run with exit   *)
(* code 1, and when it struck in step k exactly k steps have begun and     *)
(* k - 1 have ended; nothing happens after the failure.                    *)

C6_State ==
    /\ started # << >> => IsResolved /\ IsPrefix(started, ExpectedSteps)
    /\ IsPrefix(ended, started)
    /\ \A i \in DOMAIN log :
         log[i].kind = "start" => CountKind("start", i - 1) = CountKind("end", i - 1)
    /\ err # "none" => pc \in {"failed", "exited"} /\ exitCode = Some(1)
    /\ (pc = "failed" /\ started # << >>) => Len(started) = Len(ended) + 1

C6_FailFast == [] C6_State /\ [][ pc # "failed" ]_vars

\* the third of at least five steps failed
C6_Witness ==
    /\ pc = "failed"
    /\ Len(started) = 3 /\ Len(ended) = 2
    /\ Len(ExpectedSteps) >= 5

----------------------------------------------------------------------------
(* C7: the steps begun follow the canonical order, each at most once, and  *)
(* a completed run has begun exactly the steps its flags enable.  git init *)
(* runs before .gitignore is written, no configuration file is written     *)
(* once the template copy has begun, and no step begins after the build.   *)

ConfigWrites ==
    { P_packageJson, P_gitignore, P_eslintrc, P_prettierrc, P_settings, P_extensions }

C7_CanonicalOrder ==
    /\ started # << >> => IsPrefix(started, ExpectedSteps)
    /\ pc = "done" => started = ExpectedSteps
    /\ \A i \in DOMAIN log :
         /\ log[i] = Wrote(P_gitignore) => \E j \in 1..(i - 1) : log[j] = Ran(<< "git init" >>)
         /\ log[i] = Start("Copying template files..") =>
               \A j \in (i + 1)..Len(log) :
                  ~ (log[j].kind = "write" /\ log[j].what \in ConfigWrites)
         /\ log[i] = Start("Compiling..") =>
               \A j \in (i + 1)..Len(log) : log[j].kind # "start"

\* a completed run without git and with a build
C7_Witness ==
    /\ pc = "done"
    /\ cfg.git = False /\ cfg.eslint = True /\ cfg.vscode = False
    /\ argv.skipBuild # True
    /\ Len(started) = 6

----------------------------------------------------------------------------
(* C8: a collision error is raised only when every inventory path has been *)
(* examined, and it lists every colliding path, relative to the working    *)
(* directory of the process, in inventory order.                           *)

\* the target directory as seen from the working directory of the process
FromWorkingDir(d) ==
    CASE d = [abs |-> FALSE, segs |-> << "proj" >>]      -> << "proj" >>
      [] d = [abs |-> FALSE, segs |-> << >>]             -> << >>
      [] d = [abs |-> FALSE, segs |-> << "..", "sib" >>] -> << "..", "sib" >>
      [] d = [abs |-> TRUE,  segs |-> << "srv", "x" >>]  -> << "..", "srv", "x" >>

RECURSIVE CollidingFrom(_)
CollidingFrom(i) ==
    IF i > Len(pathValues) THEN << >>
    ELSE (IF Occupies(pathValues[i])
          THEN << FromWorkingDir(dir[1]) \o pathValues[i] >> ELSE << >>)
         \o CollidingFrom(i + 1)

C8_AllCollisionsListed ==
    err = CollisionError =>
        /\ scanIdx = Len(pathValues) + 1
        /\ existingPaths = CollidingFrom(1)
        /\ existingPaths # << >>

\* two collisions below a directory outside the working directory
C8_Witness ==
    /\ err = CollisionError
    /\ Len(existingPaths) = 2
    /\ dir = Some([abs |-> TRUE, segs |-> << "srv", "x" >>])

----------------------------------------------------------------------------
(* C9: an examined path is listed as a collision exactly when it is a      *)
(* regular file, a symbolic link of any kind or a non-empty directory, and *)
(* examining a path never raises an error.                                 *)

ClaimedCollision(k) ==
    k \in {"file", "fullDir", "linkFile", "linkEmptyDir", "linkFullDir", "linkDangling"}

Listed(e) ==
    \E j \in DOMAIN existingPaths :
        existingPaths[j] = FromWorkingDir(dir[1]) \o e

C9_Original ==
    /\ err # "Error: ENOTDIR"
    /\ (pc = "scan" \/ err = CollisionError) =>
          \A i \in 1..(scanIdx - 1) :
             fs[pathValues[i]] # "special" =>
                (Listed(pathValues[i]) <=> ClaimedCollision(fs[pathValues[i]]))

----------------------------------------------------------------------------
(* C10: --compilerVersion is accepted exactly when it is three non-empty   *)
(* groups of digits separated by single dots; a rejected value ends the    *)
(* run with the InitError before anything else happens: no prompt, no      *)
(* probe, nothing written, under every command.                            *)

Dots(s) == { i \in DOMAIN s : s[i] = "." }

ThreeGroups(s) ==
    /\ \A i \in DOMAIN s : s[i] \in Digits \cup {"."}
    /\ Cardinality(Dots(s)) = 2
    /\ \A i \in Dots(s) : i # 1 /\ i # Len(s) /\ (i + 1) \notin Dots(s)

C10_VersionGate ==
    (argv.compilerVersion # None /\ pc # "parse") =>
        IF ThreeGroups(argv.compilerVersion[1])
        THEN err # VersionError
        ELSE /\ pc = "exited" /\ err = VersionError /\ exitCode = Some(1)
             /\ log = << >> /\ avail = NoAvail /\ dir = None /\ cfg = NoCfg

\* "1.2.3-beta" is turned down under the package subcommand
C10_Witness ==
    /\ pc = "exited" /\ err = VersionError
    /\ command = "package"
    /\ argv.compilerVersion = Some(<< "1", ".", "2", ".", "3", "-", "b", "e", "t", "a" >>)

----------------------------------------------------------------------------
(* C11, as stated: `package --dir proj --yes` with no other flag, on a     *)
(* host with all four tools and an empty target directory: no prompt is    *)
(* asked, the options resolve to package / git, eslint, prettier, vscode   *)
(* on / npm, the collision check passes, and a run in which every step     *)
(* succeeds has begun exactly 7 steps, the last one being the build.       *)

\* the target directory was there and empty when the run began: the run did
\* not create it and everything in it was written by the run
StartedEmpty ==
    /\ fs[Target] = "emptyDir"
    /\ \A i \in DOMAIN writes : writes[i] # Target
    /\ \A e \in Occupied(fs) : \E i \in DOMAIN writes : writes[i] = e

PackageScenario ==
    /\ command = "package" /\ argv = PackageArgs /\ host = AllFound
    /\ StartedEmpty

RecommendedPackage ==
    [ template |-> "package", git |-> True, eslint |-> True, prettier |-> True,
      vscode |-> True, packageManager |-> "npm" ]

C11_Original ==
    PackageScenario =>
        /\ asked = << >>
        /\ IsResolved => cfg = RecommendedPackage
        /\ existingPaths = << >> /\ err # CollisionError
        /\ pc = "done" =>
              /\ Len(started) = 7
              /\ IsPrefix(started, ExpectedSteps)
              /\ started[Len(started)] = "Compiling.."

(* C11, amended: the same, except that the run has begun exactly 8 steps:  *)
(* package.json, git, install, eslint, prettier, vscode, template copy and *)
(* the build, in this order.                                               *)

C11_PackageScenario ==
    PackageScenario =>
        /\ asked = << >>
        /\ IsResolved => cfg = RecommendedPackage
        /\ existingPaths = << >> /\ err # CollisionError
        /\ pc = "done" =>
              started = << "Initializing package.json..", "Initializing Git..",
                           "Installing dependencies..", "Configuring ESLint..",
                           "Configuring prettier..", "Configuring vscode..",
                           "Copying template files..", "Compiling.." >>

\* the scenario ran to its end, the build included
C11_Witness ==
    /\ PackageScenario
    /\ pc = "done" /\ exitCode = Some(0)
    /\ \E i \in DOMAIN cmds : cmds[i] = << "npm run build" >>

----------------------------------------------------------------------------
(* C12: `game --dir proj --skipBuild --no-git` (or `place`) on a host with *)
(* all tools, whatever is answered: the git prompt is not asked, git init  *)
(* is never run, .gitignore is never written, no build command is run, a   *)
(* completed run ends with the template copy, and when eslint, prettier    *)
(* and vscode all resolve to true it has begun exactly 6 steps.            *)

GameScenario ==
    /\ CommandMode(command) = "game" /\ argv = GameArgs /\ host = AllFound

BuildCommands == { << packageManagerCommands[m].build >> : m \in PackageManager }

C12_GameScenario ==
    GameScenario =>
        /\ ~ WasAsked("git")
        /\ ~ WasStarted("Initializing Git..") /\ ~ WasStarted("Compiling..")
        /\ \A i \in DOMAIN log :
              /\ log[i] # Ran(<< "git init" >>)
              /\ log[i] # Wrote(P_gitignore)
              /\ log[i].kind = "cmd" => log[i].what \notin BuildCommands
        /\ pc = "done" => started[Len(started)] = "Copying template files.."
        /\ (pc = "done" /\ cfg.eslint = True /\ cfg.prettier = True /\ cfg.vscode = True)
              => Len(started) = 6

\* everything was answered with yes and pnpm was picked
C12_Witness ==
    /\ GameScenario
    /\ pc = "done"
    /\ cfg.eslint = True /\ cfg.prettier = True /\ cfg.vscode = True
    /\ cfg.packageManager = "pnpm" /\ command = "place"
    /\ asked = << "eslint", "prettier", "vscode", "packageManager" >>

----------------------------------------------------------------------------
(* C13: the exit code is 0 exactly when init() completed its enabled       *)
(* steps; a rejected --compilerVersion and every error thrown out of       *)
(* init(), whatever its type, end the process with exit code 1 and are     *)
(* reported as exactly one formatted line written by the error's log().    *)

\* the run ended in a failure (a cancellation is not one)
Failure == pc = "failed" \/ (pc = "exited" /\ err # "cancelled")

C13_Original ==
    /\ exitCode = Some(0) <=> (pc = "done" /\ started = ExpectedSteps)
    /\ Failure =>
          /\ exitCode = Some(1)
          /\ out = << Line(err) >>

----------------------------------------------------------------------------
(* C14: every entry of the target directory that a provisioning step       *)
(* creates or overwrites (by a file write, by the template copy or as the  *)
(* output of a command) is a path of the inventory the collision check     *)
(* examined; hence an entry that held content before the run is never      *)
(* changed by the run.                                                     *)

\* entries the run itself has written so far
Written == { writes[i] : i \in DOMAIN writes }

C14_Inventory ==
    \A i \in DOMAIN writes : writes[i] # Target => writes[i] \in Range(pathValues)

C14_Original ==
    /\ [] C14_Inventory
    /\ [][ \A e \in Entries : (Occupies(e) /\ e \notin Written) => fs'[e] = fs[e] ]_vars

----------------------------------------------------------------------------
(* C15, as stated: a collision is reported only for a path that the run,   *)
(* under its resolved configuration, would write: a file at the path of a  *)
(* disabled option (.eslintrc without eslint, .gitignore without git,      *)
(* .vscode/settings.json without vscode, package-lock.json without npm)    *)
(* does not make the collision check fail.                                 *)

C15_Original ==
    \A i \in DOMAIN pathValues : Listed(pathValues[i]) => WouldWrite(pathValues[i])

(* C15, amended: the inventory is fixed.  Each of the eight configuration  *)
(* paths is examined whatever the resolved configuration is, and one that  *)
(* is there as a file or a non-empty directory is listed and makes the     *)
(* check fail, also when its option is disabled.                           *)

C15_FixedInventory ==
    /\ \A i \in DOMAIN ConfigPaths :
          (pc = "scan" /\ scanIdx > i /\ Occupies(ConfigPaths[i])) => Listed(ConfigPaths[i])
    /\ \A i \in DOMAIN existingPaths :
          \E j \in DOMAIN pathValues : existingPaths[i] = FromWorkingDir(dir[1]) \o pathValues[j]
    /\ (started # << >> /\ Len(started) = Len(ended)) =>
          \A e \in Range(ConfigPaths) : Occupies(e) => (e \in Written /\ WouldWrite(e))

\* --yes --no-eslint is turned down because of an .eslintrc it would not write
C15_Witness ==
    /\ err = CollisionError
    /\ cfg.eslint = False /\ argv.eslint = False
    /\ existingPaths = << << "proj", ".eslintrc" >> >>

----------------------------------------------------------------------------
(* C16: whenever `git init` fails, by a non-zero exit code or by failing   *)
(* to spawn, the error that leaves init() is the original failure message  *)
(* followed by the guidance that Git may not be installed, and .gitignore  *)
(* has not been written.                                                   *)

GitGuidance == ", Do you not have Git installed?"

\* the run failed in cmd("git init")
GitInitFailed ==
    /\ pc = "failed"
    /\ log # << >> /\ log[Len(log)] = Ran(<< "git init" >>)

C16_Original ==
    GitInitFailed =>
        /\ \E outcome \in {"exit", "spawn"} : err = CmdError(outcome) \o GitGuidance
        /\ \A i \in DOMAIN writes : writes[i] # P_gitignore

----------------------------------------------------------------------------
(* C17: the probe issues the four lookups together and goes on only when   *)
(* all four have settled, in whatever order they do; it never fails, and   *)
(* the flag of a tool depends on the outcome of its own lookup only: found *)
(* gives true, not found gives false, an error gives true.                 *)

Settled(t) == lookups[t] \notin {"idle", "pending"}

C17_ProbeJoin ==
    /\ pc = "probing" => \A t \in Range(Tools) : lookups[t] # "idle"
    /\ IsProbed =>
          \A t \in Range(Tools) :
             /\ Settled(t)
             /\ avail[t] = (CASE host[t] = "found"    -> True
                              [] host[t] = "notfound" -> False
                              [] host[t] = "error"    -> True)
    /\ pc \in {"probe", "probing"} => err = "none"
    /\ (lookups # NoLookups /\ pc \in {"failed", "exited"}) => IsProbed

\* the lookup of git failed and yarn is not installed: only yarn is marked
\* unavailable
C17_Witness ==
    /\ IsProbed
    /\ host = [npm |-> "found", pnpm |-> "found", yarn |-> "notfound", git |-> "error"]
    /\ avail = [npm |-> True, pnpm |-> True, yarn |-> False, git |-> True]
    /\ pc = "done"

----------------------------------------------------------------------------
(* C18: the dependency list of the dev-install command always holds the    *)
(* compiler, the compiler types and typescript; the first two carry the    *)
(* version pin exactly when --compilerVersion is given; prettier is there  *)
(* iff the formatter is on, the four linter packages iff the linter is on, *)
(* and eslint-config-prettier and eslint-plugin-prettier iff both are on.  *)

DevInstallCommands == { packageManagerCommands[m].devInstall : m \in PackageManager }

Has(d, x) == \E i \in DOMAIN d : d[i] = x

LinterPackages ==
    { "eslint", "@typescript-eslint/eslint-plugin", "@typescript-eslint/parser",
      "eslint-plugin-roblox-ts" }

IntegrationPackages == { "eslint-config-prettier", "eslint-plugin-prettier" }

C18_DependencyList ==
    \A i \in DOMAIN cmds :
        cmds[i][1] \in DevInstallCommands =>
            LET d == Tail(cmds[i])
                v == argv.compilerVersion
            IN  /\ IF v # None
                   THEN /\ Has(d, << "roblox-ts", "@", v[1] >>)
                        /\ Has(d, << "@rbxts/compiler-types", "@compiler-", v[1] >>)
                        /\ ~ Has(d, << "roblox-ts" >>)
                        /\ ~ Has(d, << "@rbxts/compiler-types" >>)
                   ELSE /\ Has(d, << "roblox-ts" >>)
                        /\ Has(d, << "@rbxts/compiler-types" >>)
                        /\ \A j \in DOMAIN d : Len(d[j]) = 1
                /\ Has(d, << "typescript" >>)
                /\ Has(d, << "prettier" >>) <=> cfg.prettier = True
                /\ \A p \in LinterPackages : Has(d, << p >>) <=> cfg.eslint = True
                /\ \A p \in IntegrationPackages :
                      Has(d, << p >>) <=> (cfg.eslint = True /\ cfg.prettier = True)

\* a pinned compiler with the linter on and the formatter off
C18_Witness ==
    /\ \E i \in DOMAIN cmds : cmds[i][1] \in DevInstallCommands
    /\ argv.compilerVersion = Some(<< "1", ".", "2", ".", "3" >>)
    /\ cfg.eslint = True /\ cfg.prettier = False

----------------------------------------------------------------------------
(* C19: a target path that exists and is not a directory fails the run     *)
(* with the "is not a directory" InitError before any side effect: nothing *)
(* is created or written, no command is run, the probe is not performed    *)
(* and no option prompt is asked.  A target path that does not exist is    *)
(* created as a directory before the collision check, and the target       *)
(* itself is never reported as a collision.                                *)

NotDirectoryError == "InitError: is not a directory"

\* positions of a run before the target has been checked
BeforeStat == {"parse", "dirPrompt", "ensureDir", "statDir"}

C19_TargetGate ==
    /\ err = NotDirectoryError =>
          /\ pc = "failed" /\ exitCode = Some(1)
          /\ writes = << >> /\ cmds = << >> /\ started = << >>
          /\ lookups = NoLookups /\ avail = NoAvail
          /\ \A i \in DOMAIN asked : asked[i] = "dir"
          /\ cfg = NoCfg
          /\ PathExists(fs[Target]) /\ ~ StatIsDirectory(fs[Target])
    /\ (pc \notin BeforeStat \cup {"exited"} /\ err # NotDirectoryError) =>
          StatIsDirectory(fs[Target])
    /\ pc = "statDir" => PathExists(fs[Target])
    /\ \A i \in DOMAIN log :
          log[i] = Wrote(Target) => \A j \in 1..(i - 1) : log[j] = Asked("dir")
    /\ \A j \in DOMAIN existingPaths : existingPaths[j] # FromWorkingDir(dir[1])

\* /srv/x is a file
C19_Witness ==
    /\ err = NotDirectoryError
    /\ dir = Some([abs |-> TRUE, segs |-> << "srv", "x" >>])
    /\ fs[Target] = "file"

----------------------------------------------------------------------------
(* C20: for each of git, eslint, prettier and vscode that is not given on  *)
(* the command line: with --yes it resolves to its recommended default     *)
(* without being asked (git: whether git is available; the others: true);  *)
(* whenever --yes is not true (absent or --no-yes) and, for git, git is    *)
(* available, its prompt is asked exactly once and the resolved value is   *)
(* the answer.                                                             *)

TimesAsked(n) == Cardinality({ i \in DOMAIN asked : asked[i] = n })

C20_Original ==
    \A n \in {"git", "eslint", "prettier", "vscode"} :
        (argv[n] = Undef /\ IsResolved) =>
            IF argv.yes = True
            THEN /\ ~ WasAsked(n)
                 /\ cfg[n] = (IF n = "git" THEN avail["git"] ELSE True)
            ELSE (n = "git" => avail["git"] = True) =>
                    /\ TimesAsked(n) = 1
                    /\ answers[n] # Undef /\ cfg[n] = answers[n]

====
